---------------------------- MODULE Spec2Model ----------------------------
(***************************************************************************)
(* Real Estate Investment Analyzer (src/app.py).                           *)
(*                                                                         *)
(* The script is a Streamlit page: it reads the sidebar widgets, computes  *)
(* the investment summary (lines 72-122), renders it (lines 126-142) and   *)
(* builds the loan amortization table with amortization_schedule           *)
(* (lines 213-249).                                                        *)
(*                                                                         *)
(* Numbers.  Python floats are binary floating point numbers: every        *)
(* arithmetic operation returns the exact result rounded to the nearest    *)
(* number with a fixed number of significand bits (ties to even).  The     *)
(* model keeps exactly that definition and narrows the significand from 53 *)
(* bits to Precision bits.  A float is a pair <<m, e>> standing for        *)
(* m * 2^e, with m = 0 (and e = 0) or 2^(Precision-1) <= |m| < 2^Precision.*)
(* The exponent is unbounded (no overflow or underflow in the ranges the   *)
(* page works with).                                                       *)
(***************************************************************************)
EXTENDS Integers, Sequences, FiniteSets, TLC

\* ------------------------------------------------------------------ bounds

\* Significand bits of a float in the model (53 in CPython).
Precision == 13

\* ------------------------------------------------------- float arithmetic

Abs(i) == IF i < 0 THEN -i ELSE i

Sgn(i) == IF i < 0 THEN -1 ELSE IF i = 0 THEN 0 ELSE 1

MinI(a, b) == IF a <= b THEN a ELSE b

RECURSIVE BitLen(_)
\* Number of binary digits of the natural number a.
BitLen(a) == IF a = 0 THEN 0 ELSE 1 + BitLen(a \div 2)

Zero == <<0, 0>>

\* The shift s that puts a * 2^s / d in [2^(Precision-1), 2^(Precision+1)).
Shift0(a, d) == Precision - (BitLen(a) - BitLen(d))

\* floor(a * 2^s / d) and its remainder's parts.
Numer(a, s) == IF s >= 0 THEN a * 2^s ELSE a

Denom(d, s) == IF s >= 0 THEN d ELSE d * 2^(-s)

Scaled(a, d, s) == Numer(a, s) \div Denom(d, s)

\* The shift s that puts a * 2^s / d in [2^(Precision-1), 2^Precision).
ShiftOf(a, d) ==
    IF Scaled(a, d, Shift0(a, d)) >= 2^Precision
      THEN Shift0(a, d) - 1
      ELSE Shift0(a, d)

\* q + r / den rounded to the nearest integer, ties to even.
Nearest(q, r, den) ==
    IF (2 * r > den) \/ (2 * r = den /\ q % 2 = 1) THEN q + 1 ELSE q

\* sign * m * 2^e with a significand that rounding carried to 2^Precision
\* brought back into range.
Pack(sign, m, e) ==
    IF m = 2^Precision THEN <<sign * 2^(Precision - 1), e + 1>>
                       ELSE <<sign * m, e>>

RoundAt(n, d, e, s) ==
    Pack(Sgn(n),
         Nearest(Scaled(Abs(n), d, s), Numer(Abs(n), s) % Denom(d, s),
                 Denom(d, s)),
         e - s)

\* The float nearest to (n / d) * 2^e, ties to even; d > 0.
Round(n, d, e) ==
    IF n = 0 THEN Zero ELSE RoundAt(n, d, e, ShiftOf(Abs(n), d))

\* int -> float conversion.
FromInt(i) == Round(i, 1, 0)

\* The float a decimal literal or text n/d is read as (8.5 is Ratio(17, 2)),
\* and Python's true division of two ints, which is correctly rounded.
Ratio(n, d) == Round(n, d, 0)

One == FromInt(1)

Neg(x) == <<-x[1], x[2]>>

\* hi + lo for nonzero floats with hi's exponent the larger.  A term below
\* a quarter of hi's last place does not change hi.
AddOrdered(hi, lo) ==
    IF hi[2] - lo[2] > Precision + 1 THEN hi
    ELSE Round(hi[1] * 2^(hi[2] - lo[2]) + lo[1], 1, lo[2])

\* x + y
Add(x, y) ==
    IF x[1] = 0 THEN y
    ELSE IF y[1] = 0 THEN x
    ELSE IF x[2] >= y[2] THEN AddOrdered(x, y)
    ELSE AddOrdered(y, x)

\* x - y
Sub(x, y) == Add(x, Neg(y))

\* x * y
Mul(x, y) == Round(x[1] * y[1], 1, x[2] + y[2])

\* x / y, y # 0
Div(x, y) == Round(Sgn(y[1]) * x[1], Abs(y[1]), x[2] - y[2])

\* x < y as Python compares floats: by value.
Lt(x, y) == Sub(x, y)[1] < 0

AbsF(x) == <<Abs(x[1]), x[2]>>

Square(x) == Mul(x, x)

RECURSIVE PowF(_, _)
\* x ** n for an int n >= 0: the power rounded to a float.  libm's pow
\* is modelled as square-and-multiply with every product rounded; x ** 1
\* is x and x ** 0 is 1, as in libm.
PowF(x, n) ==
    IF n = 0 THEN One
    ELSE IF n = 1 THEN x
    ELSE IF n % 2 = 0 THEN Square(PowF(x, n \div 2))
    ELSE Mul(x, PowF(x, n - 1))

\* numpy_financial.pmt: fact = nper if rate == 0 else
\* (1 + rate*when)*(temp - 1)/rate, with when = 0 ('end').
PmtFact(rate, nper, temp) ==
    IF rate[1] = 0 THEN FromInt(nper) ELSE Div(Sub(temp, One), rate)

\* numpy_financial.pmt: -(fv + pv*temp)/fact with fv = 0.
PmtOf(rate, nper, pv, temp) ==
    Neg(Div(Mul(pv, temp), PmtFact(rate, nper, temp)))

\* numpy_financial.pmt(rate, nper, pv): temp = (1 + rate)**nper.
pmt(rate, nper, pv) == PmtOf(rate, nper, pv, PowF(Add(One, rate), nper))

\* ------------------------------------------------------------------ state

VARIABLES
    pc,                    \* position in the script / in amortization_schedule
    \* sidebar widgets (lines 20-29, 35, 40-42, 55-57)
    property_type, property_price, down_payment_pct, loan_interest_rate,
    loan_tenure_yrs, rent_monthly, annual_maintenance, capital_appreciation,
    rental_growth, horizon_years, construction_years,
    payment_schedule_str, payment_timing_str,
    \* lines 44-70
    payment_splits, payment_timing, sidebar,
    \* lines 72-122
    down_payment_amt, loan_amt, emi, disbursement_schedule, net_rent_vals,
    total_outflow, net_rent_total, property_vals, total_inflow, interest_paid,
    net_profit, cashflows, irr,
    \* lines 126-142
    page,
    \* amortization_schedule (lines 213-249): parameters, locals, result
    principal, annual_rate, years, view, balance, month, records, amort_df

widgetVars == <<property_type, property_price, down_payment_pct,
                loan_interest_rate, loan_tenure_yrs, rent_monthly,
                annual_maintenance, capital_appreciation, rental_growth,
                horizon_years, construction_years, payment_schedule_str,
                payment_timing_str>>

parseVars == <<payment_splits, payment_timing, sidebar>>

calcVars == <<down_payment_amt, loan_amt, emi, disbursement_schedule,
              total_outflow, net_rent_vals, net_rent_total, property_vals, total_inflow,
              interest_paid, net_profit, cashflows, irr>>

amortVars == <<principal, annual_rate, years, view, balance, month, records,
               amort_df>>

vars == <<pc, widgetVars, parseVars, calcVars, page, amortVars>>

\* ----------------------------------------------------- program constants

\* Months in a year: months = loan_tenure_yrs * 12, n_months = years * 12,
\* Year = (Month - 1) // 12 + 1.
MonthsPerYear == 12

\* st.sidebar.slider("Loan Tenure (years)", 5, 30, 20): the lower end.
LoanTenureMin == 5

\* st.sidebar.slider("Down Payment (%)", 10, 100, 30): the two ends.
DownPaymentMin == 10

DownPaymentMax == 100

\* ------------------------------------------------------------ input sets

\* Largest loan tenure tried (the slider goes to 30).
MaxTenure == 5

\* Largest investment horizon tried, in years (the slider goes to 30).
MaxHorizon == 2

PropertyTypes == {"Ready-to-move", "Under-construction"}

\* Property prices tried (number_input, an int), in thousands.
Prices == {1000, 2500}

\* Down payment percentages tried (slider 10..100).
DownPayments == {DownPaymentMin, 30, DownPaymentMax}

\* Loan interest rates tried (number_input, a float): 0, 8.5 and 9.
Rates == {Zero, Ratio(17, 2), FromInt(9)}

Tenures == LoanTenureMin .. MaxTenure

Views == {"Annual", "Monthly"}

\* --------------------------------------------- lines 73-76: loan figures

\* down_payment_amt = property_price * down_payment_pct / 100
DownPaymentAmt(price, pct) == Ratio(price * pct, 100)

\* loan_amt = property_price - down_payment_amt
LoanAmt(price, pct) == Sub(FromInt(price), DownPaymentAmt(price, pct))

\* monthly_interest_rate = loan_interest_rate / 12 / 100
\* (monthly_rate = annual_rate / 12 / 100 in amortization_schedule)
MonthlyRate(rate) == Div(Div(rate, FromInt(MonthsPerYear)), FromInt(100))

\* months = loan_tenure_yrs * 12 (n_months = years * 12)
NMonths(yrs) == yrs * MonthsPerYear

\* ------------------------------------------------ amortization_schedule

\* max(balance, 0)
MaxZero(x) == IF x[1] < 0 THEN Zero ELSE x

RECURSIVE SumTo(_, _)
\* xs[1] + ... + xs[k], added up in row order.
SumTo(xs, k) == IF k = 0 THEN Zero ELSE Add(SumTo(xs, k - 1), xs[k])

\* The sum of a column.
SumF(xs) == SumTo(xs, Len(xs))

Column(rows, f) == [i \in 1 .. Len(rows) |-> rows[i][f]]

\* The Year column with the month taken as counted from 0.
YearOfFromZero(m) == (m \div MonthsPerYear) + 1

\* df["Year"] = ((df["Month"] - 1) // 12) + 1
YearOf(m) == ((m - 1) \div MonthsPerYear) + 1

\* The smallest key.
MinOf(S) == CHOOSE x \in S : \A y \in S : x <= y

RECURSIVE SortedKeys(_)
\* The group keys in ascending order (groupby sorts them).
SortedKeys(S) ==
    IF S = {} THEN <<>> ELSE <<MinOf(S)>> \o SortedKeys(S \ {MinOf(S)})

\* .agg({"Interest Paid": "sum", "Principal Paid": "sum", "Balance": "last"})
\* of the rows g of one Year, Year renamed to Period.
AggRow(y, g) ==
    [Period        |-> y,
     InterestPaid  |-> SumF(Column(g, "InterestPaid")),
     PrincipalPaid |-> SumF(Column(g, "PrincipalPaid")),
     Balance       |-> g[Len(g)].Balance]

\* The rows whose Year is y, in the frame's order.
YearGroup(recs, y) == SelectSeq(recs, LAMBDA r : YearOf(r.Month) = y)

AnnualRows(recs, keys) ==
    [k \in 1 .. Len(keys) |-> AggRow(keys[k], YearGroup(recs, keys[k]))]

\* df.groupby("Year").agg(...).reset_index()
AnnualView(recs) ==
    AnnualRows(recs, SortedKeys({YearOf(recs[i].Month) : i \in 1 .. Len(recs)}))

\* pd.DataFrame(records) with Month renamed to Period.
MonthlyView(recs) ==
    [i \in 1 .. Len(recs) |->
       [Period        |-> recs[i].Month,
        InterestPaid  |-> recs[i].InterestPaid,
        PrincipalPaid |-> recs[i].PrincipalPaid,
        Balance       |-> recs[i].Balance]]

\* interest = balance * monthly_rate
Interest(bal, monthly_rate) == Mul(bal, monthly_rate)

\* payment = npf.pmt(monthly_rate, n_months - month + 1, -balance)
\* principal_paid = payment - interest
PrincipalPaid(bal, monthly_rate, nper) ==
    Sub(pmt(monthly_rate, nper, Neg(bal)), Interest(bal, monthly_rate))

\* balance -= principal_paid; balance = max(balance, 0)
NewBalance(bal, monthly_rate, nper) ==
    MaxZero(Sub(bal, PrincipalPaid(bal, monthly_rate, nper)))

\* The record appended for `month`, nper = n_months - month + 1.
Record(m, bal, monthly_rate, nper) ==
    [Month         |-> m,
     InterestPaid  |-> Interest(bal, monthly_rate),
     PrincipalPaid |-> PrincipalPaid(bal, monthly_rate, nper),
     Balance       |-> NewBalance(bal, monthly_rate, nper)]

\* Lines 214-218: the function is entered; balance = principal, records = [].
Enter ==
    /\ pc = "call"
    /\ balance' = principal
    /\ records' = <<>>
    /\ month' = 1
    /\ pc' = "loop"
    /\ UNCHANGED <<principal, annual_rate, years, view, amort_df>>
    /\ UNCHANGED <<widgetVars, parseVars, calcVars, page>>

\* Lines 220-232: one pass of `for month in range(1, n_months + 1)`.
LoopBody ==
    /\ pc = "loop"
    /\ month <= NMonths(years)
    /\ records' = Append(records,
                         Record(month, balance, MonthlyRate(annual_rate),
                                NMonths(years) - month + 1))
    /\ balance' = records'[Len(records')].Balance
    /\ month' = month + 1
    /\ UNCHANGED <<pc, principal, annual_rate, years, view, amort_df>>
    /\ UNCHANGED <<widgetVars, parseVars, calcVars, page>>

\* Lines 234-237: view == "Monthly".
ReturnMonthly ==
    /\ pc = "loop"
    /\ month > NMonths(years)
    /\ view = "Monthly"
    /\ amort_df' = MonthlyView(records)
    /\ pc' = "returned"
    /\ UNCHANGED <<principal, annual_rate, years, view, balance, month, records>>
    /\ UNCHANGED <<widgetVars, parseVars, calcVars, page>>

\* Lines 239-249: the annual aggregation.
ReturnAnnual ==
    /\ pc = "loop"
    /\ month > NMonths(years)
    /\ view # "Monthly"
    /\ amort_df' = AnnualView(records)
    /\ pc' = "returned"
    /\ UNCHANGED <<principal, annual_rate, years, view, balance, month, records>>
    /\ UNCHANGED <<widgetVars, parseVars, calcVars, page>>

\* ------------------------------------------------- lines 18-70: sidebar

\* Text typed in a comma separated field: each item is a numeral or other
\* text.  float(x.strip()) and int(x.strip()) accept the numerals only.
Num(n) == <<"num", n>>

Text == <<"text", 0>>

\* "Enter Payment % splits (comma separated)": the default, two valid
\* entries, one that sums to 90, and one that is no number.
ScheduleStrs == { <<Num(10), Num(20), Num(30), Num(40)>>,
                  <<Num(50), Num(50)>>,
                  <<Num(100)>>,
                  <<Num(60), Num(30)>>,
                  <<Text>> }

\* "Enter payment timings in months (comma separated)": the default,
\* its two-item form, a descending entry, and one that is no number.
TimingStrs == { <<Num(0), Num(6), Num(18), Num(36)>>,
                <<Num(0), Num(6)>>,
                <<Num(6), Num(0)>>,
                <<Num(6)>>,
                <<Text>> }

\* Expected monthly rent (number_input, an int).
Rents == {5}

\* Annual maintenance and tax (number_input, an int).
Maintenances == {0, 30, 9000}

\* Capital appreciation and rental growth, percent (sliders 0..15).
Appreciations == {6}

Growths == {0, 3}

Horizons == 1 .. MaxHorizon

\* Every item converts: the list comprehension of lines 46 and 60 succeeds.
Parsable(str) == \A i \in 1 .. Len(str) : str[i][1] = "num"

\* [float(x.strip()) for x in payment_schedule_str.split(",")]
ParseFloats(str) == [i \in 1 .. Len(str) |-> FromInt(str[i][2])]

\* [int(x.strip()) for x in payment_timing_str.split(",")]
ParseInts(str) == [i \in 1 .. Len(str) |-> str[i][2]]

\* abs(sum(payment_splits) - 100) > 0.01
SplitsOffHundred(splits) ==
    Lt(Ratio(1, 100), AbsF(Sub(SumF(splits), FromInt(100))))

\* Lines 67-70: a ready-to-move property.
ReadyToMove ==
    /\ pc = "start"
    /\ property_type # "Under-construction"
    /\ construction_years' = 0
    /\ payment_splits' = <<FromInt(100)>>
    /\ payment_timing' = <<0>>
    /\ pc' = "parsed"
    /\ UNCHANGED <<property_type, property_price, down_payment_pct,
                   loan_interest_rate, loan_tenure_yrs, rent_monthly,
                   annual_maintenance, capital_appreciation, rental_growth,
                   horizon_years, payment_schedule_str, payment_timing_str>>
    /\ UNCHANGED <<sidebar, calcVars, page, amortVars>>

\* Lines 45-50: the splits do not convert; the except branch reports it and
\* leaves payment_splits unbound, so line 50 raises NameError.
SplitsUnparsable ==
    /\ pc = "start"
    /\ property_type = "Under-construction"
    /\ ~Parsable(payment_schedule_str)
    /\ sidebar' = {"error: Invalid payment split input"}
    /\ pc' = "NameError"
    /\ UNCHANGED <<widgetVars, payment_splits, payment_timing, calcVars, page,
                   amortVars>>

\* Lines 45-64: the splits convert, the timings do not; payment_timing is
\* unbound and line 64 raises NameError.
TimingUnparsable ==
    /\ pc = "start"
    /\ property_type = "Under-construction"
    /\ Parsable(payment_schedule_str)
    /\ ~Parsable(payment_timing_str)
    /\ payment_splits' = ParseFloats(payment_schedule_str)
    /\ sidebar' =
         (IF SplitsOffHundred(ParseFloats(payment_schedule_str))
            THEN {"warning: Payment splits should sum to 100%"} ELSE {})
         \cup {"error: Invalid payment timing input"}
    /\ pc' = "NameError"
    /\ UNCHANGED <<widgetVars, payment_timing, calcVars, page, amortVars>>

\* Lines 45-65: both fields convert.  A sum off 100 and a length mismatch
\* are reported with st.sidebar.warning and the script goes on.
ParseTranches ==
    /\ pc = "start"
    /\ property_type = "Under-construction"
    /\ Parsable(payment_schedule_str)
    /\ Parsable(payment_timing_str)
    /\ payment_splits' = ParseFloats(payment_schedule_str)
    /\ payment_timing' = ParseInts(payment_timing_str)
    /\ sidebar' =
         (IF SplitsOffHundred(ParseFloats(payment_schedule_str))
            THEN {"warning: Payment splits should sum to 100%"} ELSE {})
         \cup
         (IF Len(payment_timing_str) # Len(payment_schedule_str)
            THEN {"warning: Number of timings must equal number of payment splits"}
            ELSE {})
    /\ pc' = "parsed"
    /\ UNCHANGED <<widgetVars, calcVars, page, amortVars>>

\* ------------------------------------------- lines 72-122: calculations

\* zip(payment_splits, payment_timing) stops at the shorter list;
\* each item is (month / 12, loan_amt * (pct / 100)).
DisbursementSchedule(ptype, splits, timing, loan) ==
    IF ptype = "Under-construction"
      THEN [k \in 1 .. MinI(Len(splits), Len(timing)) |->
              <<Ratio(timing[k], MonthsPerYear),
                Mul(loan, Div(splits[k], FromInt(100)))>>]
      ELSE <<>>

RECURSIVE NetRentLoop(_, _, _, _, _, _, _)
\* Lines 96-103: the loop from year i on, with net_rent_vals = acc so far.
NetRentLoop(i, current_rent, acc, ptype, cyears, hyears, growth) ==
    IF i >= hyears THEN acc
    ELSE IF ptype = "Under-construction" /\ i < cyears
      THEN NetRentLoop(i + 1, current_rent, Append(acc, Zero),
                       ptype, cyears, hyears, growth)
      ELSE NetRentLoop(i + 1,
                       Mul(current_rent, Add(One, Ratio(growth, 100))),
                       Append(acc, current_rent),
                       ptype, cyears, hyears, growth)

\* rent_annual = rent_monthly * 12
\* net_rent_annual = rent_annual - annual_maintenance
NetRentAnnual(rent, maintenance) == rent * MonthsPerYear - maintenance

\* Lines 92-103: net_rent_vals.
NetRentVals(ptype, rent, maintenance, cyears, hyears, growth) ==
    NetRentLoop(0, FromInt(NetRentAnnual(rent, maintenance)), <<>>, ptype,
                cyears, hyears, growth)

\* Line 108: property_price * pow(1 + capital_appreciation / 100, i + 1).
PropertyVals(price, appreciation, hyears) ==
    [y \in 1 .. hyears |->
       Mul(FromInt(price), PowF(Add(One, Ratio(appreciation, 100)), y))]

\* Line 114: emi * min(horizon_years, loan_tenure_yrs) * 12 - loan_amt.
InterestPaid(e, hyears, tenure, loan) ==
    Sub(Mul(Mul(e, FromInt(MinI(hyears, tenure))), FromInt(MonthsPerYear)),
        loan)

\* Lines 118-121: the cash flows handed to npf.irr.
Cashflows(dpa, rents, final_property_value) ==
    <<Neg(dpa)>> \o SubSeq(rents, 1, Len(rents) - 1)
                 \o <<Add(rents[Len(rents)], final_property_value)>>

\* The cash flows hold a positive and a negative amount.
SignChange(cf) ==
    /\ \E i \in 1 .. Len(cf) : cf[i][1] > 0
    /\ \E i \in 1 .. Len(cf) : cf[i][1] < 0

\* npf.irr(cashflows): a rate when the flows change sign (the page's flows
\* change sign at most once, so the rate exists and is unique), and nan
\* when they do not.  The rate's value is not computed.
Irr(cf) == IF SignChange(cf) THEN "rate" ELSE "nan"

\* Line 79: emi = npf.pmt(monthly_interest_rate, months, -loan_amt)
Emi(rate, tenure, loan) == pmt(MonthlyRate(rate), NMonths(tenure), Neg(loan))

\* Lines 113-114: the EMI is taken to be paid in each of the first
\* min(horizon_years, loan_tenure_yrs) * 12 months, whatever the tranches.
EmiCharged(m, e, hyears, tenure) ==
    IF 1 <= m /\ m <= MinI(hyears, tenure) * MonthsPerYear THEN e ELSE Zero

\* Lines 73-122, in the script's order.
Calculate ==
    /\ pc = "parsed"
    /\ down_payment_amt' = DownPaymentAmt(property_price, down_payment_pct)
    /\ loan_amt' = LoanAmt(property_price, down_payment_pct)
    /\ emi' = Emi(loan_interest_rate, loan_tenure_yrs, loan_amt')
    /\ disbursement_schedule' =
          DisbursementSchedule(property_type, payment_splits, payment_timing,
                               loan_amt')
    /\ total_outflow' = down_payment_amt'
    /\ net_rent_vals' =
          NetRentVals(property_type, rent_monthly, annual_maintenance,
                      construction_years, horizon_years, rental_growth)
    /\ net_rent_total' = SumF(net_rent_vals')
    /\ property_vals' =
          PropertyVals(property_price, capital_appreciation, horizon_years)
    /\ total_inflow' = Add(net_rent_total', property_vals'[Len(property_vals')])
    /\ interest_paid' =
          InterestPaid(emi', horizon_years, loan_tenure_yrs, loan_amt')
    /\ net_profit' = Sub(Sub(total_inflow', total_outflow'), interest_paid')
    /\ cashflows' = Cashflows(down_payment_amt', net_rent_vals',
                              property_vals'[Len(property_vals')])
    /\ irr' = Irr(cashflows')
    /\ pc' = "calculated"
    /\ UNCHANGED <<widgetVars, parseVars, page, amortVars>>

\* ------------------------------------------ lines 126-142: the summary

\* round(x) of a float: the nearest int, ties to even.
RoundInt(x) ==
    IF x[2] >= 0 THEN x[1] * 2^x[2]
    ELSE IF -x[2] > Precision + 1 THEN 0
    ELSE Sgn(x[1]) * Nearest(Abs(x[1]) \div 2^(-x[2]), Abs(x[1]) % 2^(-x[2]),
                             2^(-x[2]))

\* The metrics of the Investment Summary, before they are formatted, and
\* the IRR line; irr * 100 of nan is nan and prints as "nan%".
Summary ==
    [emi_rounded          |-> RoundInt(emi),
     final_property_value |-> property_vals[Len(property_vals)],
     net_rent_total       |-> net_rent_total,
     total_outflow        |-> Add(total_outflow, interest_paid),
     net_profit           |-> net_profit,
     irr                  |-> IF irr = "nan" THEN "nan%" ELSE "rate%"]

Render ==
    /\ pc = "calculated"
    /\ page' = Summary
    /\ pc' = "rendered"
    /\ UNCHANGED <<widgetVars, parseVars, calcVars, amortVars>>

\* ------------------------------------------------------ specifications

\* The widgets and the script's names while only amortization_schedule runs.
ScriptIdle ==
    /\ property_type = "Ready-to-move"
    /\ property_price = 0 /\ down_payment_pct = 0
    /\ loan_interest_rate = Zero /\ loan_tenure_yrs = 0
    /\ rent_monthly = 0 /\ annual_maintenance = 0
    /\ capital_appreciation = 0 /\ rental_growth = 0
    /\ horizon_years = 0 /\ construction_years = 0
    /\ payment_schedule_str = <<>> /\ payment_timing_str = <<>>
    /\ payment_splits = <<>> /\ payment_timing = <<>> /\ sidebar = {}
    /\ down_payment_amt = Zero /\ loan_amt = Zero /\ emi = Zero
    /\ disbursement_schedule = <<>> /\ total_outflow = Zero
    /\ net_rent_vals = <<>>
    /\ net_rent_total = Zero /\ property_vals = <<>> /\ total_inflow = Zero
    /\ interest_paid = Zero /\ net_profit = Zero /\ cashflows = <<>>
    /\ irr = "unset"
    /\ page = <<>>

\* amortization_schedule(loan_amt, loan_interest_rate, loan_tenure_yrs,
\* amortization_view) as line 251 calls it, for the loans of the input sets.
AmortInit ==
    /\ pc = "call"
    /\ \E price \in Prices, pct \in DownPayments :
          principal = LoanAmt(price, pct)
    /\ annual_rate \in Rates
    /\ years \in Tenures
    /\ view \in Views
    /\ balance = Zero /\ month = 0 /\ records = <<>> /\ amort_df = <<>>
    /\ ScriptIdle

AmortNext == Enter \/ LoopBody \/ ReturnMonthly \/ ReturnAnnual

AmortSpec == AmortInit /\ [][AmortNext]_vars

\* amortization_schedule's names while the script has not reached line 251.
AmortIdle ==
    /\ principal = Zero /\ annual_rate = Zero /\ years = 0 /\ view = "Annual"
    /\ balance = Zero /\ month = 0 /\ records = <<>> /\ amort_df = <<>>

\* The script starts with the widgets holding what the user entered.
Init ==
    /\ pc = "start"
    /\ property_type \in PropertyTypes
    /\ property_price \in Prices
    /\ down_payment_pct \in DownPayments
    /\ loan_interest_rate \in Rates
    /\ loan_tenure_yrs \in Tenures
    /\ rent_monthly \in Rents
    /\ annual_maintenance \in Maintenances
    /\ capital_appreciation \in Appreciations
    /\ rental_growth \in Growths
    /\ horizon_years \in Horizons
    /\ IF property_type = "Under-construction"
         THEN /\ construction_years \in 0 .. horizon_years
              /\ payment_schedule_str \in ScheduleStrs
              /\ payment_timing_str \in TimingStrs
         ELSE /\ construction_years = 0
              /\ payment_schedule_str = <<>>
              /\ payment_timing_str = <<>>
    /\ payment_splits = <<>> /\ payment_timing = <<>> /\ sidebar = {}
    /\ down_payment_amt = Zero /\ loan_amt = Zero /\ emi = Zero
    /\ disbursement_schedule = <<>> /\ total_outflow = Zero
    /\ net_rent_vals = <<>>
    /\ net_rent_total = Zero /\ property_vals = <<>> /\ total_inflow = Zero
    /\ interest_paid = Zero /\ net_profit = Zero /\ cashflows = <<>>
    /\ irr = "unset"
    /\ page = <<>>
    /\ AmortIdle

Next ==
    \/ ReadyToMove
    \/ SplitsUnparsable
    \/ TimingUnparsable
    \/ ParseTranches
    \/ Calculate
    \/ Render

\* The script from the sidebar to the Investment Summary (lines 18-142).
Spec == Init /\ [][Next]_vars

\* ---------------------------------------------------------------- claims

\* x and y agree to within 32 units in the last place.
Close(x, y) ==
    LET d   == AbsF(Sub(x, y))
        big == IF Lt(AbsF(x), AbsF(y)) THEN AbsF(y) ELSE AbsF(x)
    IN  ~Lt(<<big[1], big[2] + 5 - Precision>>, d)

\* a + b without rounding, for m * 2^e pairs with any integer m.
ExactAdd(a, b) ==
    IF a[1] = 0 THEN b
    ELSE IF b[1] = 0 THEN a
    ELSE <<a[1] * 2^(a[2] - MinI(a[2], b[2]))
             + b[1] * 2^(b[2] - MinI(a[2], b[2])),
           MinI(a[2], b[2])>>

RECURSIVE ExactSum(_, _, _)
\* xs[lo] + ... + xs[hi] without rounding.
ExactSum(xs, lo, hi) ==
    IF lo > hi THEN Zero
    ELSE IF lo = hi THEN xs[lo]
    ELSE ExactAdd(ExactSum(xs, lo, (lo + hi) \div 2),
                  ExactSum(xs, (lo + hi) \div 2 + 1, hi))

\* The total of a column, rounded once.
Total(rows, f) ==
    Round(ExactSum(Column(rows, f), 1, Len(rows))[1], 1,
          ExactSum(Column(rows, f), 1, Len(rows))[2])

Returned == pc = "returned"

Calculated == pc \in {"calculated", "rendered"}

\* C1: for a loan with principal > 0, the monthly ledger ends with a balance
\* of exactly zero and the Principal Paid column adds up to the principal.
C1_LedgerEndsAtZero ==
    (Returned /\ view = "Monthly" /\ principal[1] > 0) =>
        /\ amort_df[Len(amort_df)].Balance = Zero
        /\ Close(Total(amort_df, "PrincipalPaid"), principal)

\* The months of annual period y in a ledger of n months: those with
\* ceil(month / 12) = y.
Block(recs, y) ==
    SubSeq(recs, 12 * (y - 1) + 1, MinI(12 * y, Len(recs)))

\* C8: the annual view has one row per block of 12 months, numbered
\* ceil(month / 12); a row's interest and principal are the sums over its
\* block and its balance is the balance of the block's last month; no month
\* is dropped or counted twice, so the annual rows and the monthly rows have
\* the same total interest and total principal.
C8_AnnualViewAggregates ==
    (Returned /\ view = "Annual") =>
        /\ Len(amort_df) = (Len(records) + 11) \div 12
        /\ \A m \in 1 .. Len(records) : records[m].Month = m
        /\ \A y \in 1 .. Len(amort_df) :
              /\ amort_df[y].Period = y
              /\ amort_df[y].InterestPaid =
                    SumF(Column(Block(records, y), "InterestPaid"))
              /\ amort_df[y].PrincipalPaid =
                    SumF(Column(Block(records, y), "PrincipalPaid"))
              /\ amort_df[y].Balance =
                    records[MinI(12 * y, Len(records))].Balance
        /\ Close(Total(amort_df, "InterestPaid"), Total(records, "InterestPaid"))
        /\ Close(Total(amort_df, "PrincipalPaid"),
                 Total(records, "PrincipalPaid"))

\* An interest-bearing loan's annual view with one row per year of tenure.
C8_Witness ==
    /\ Returned /\ view = "Annual"
    /\ principal[1] > 0 /\ annual_rate[1] > 0
    /\ Len(records) = NMonths(years)
    /\ Len(amort_df) = years
    /\ amort_df[years].InterestPaid[1] > 0

UnderConstruction == property_type = "Under-construction"

\* The installment of the loan drawn with tranche k.
TrancheInstallment(k) ==
    pmt(MonthlyRate(loan_interest_rate), NMonths(loan_tenure_yrs),
        Neg(disbursement_schedule[k][2]))

\* The installments of the tranche loans active in month m: tranche k,
\* disbursed in month d, is active in months d + 1 .. d + tenure.
ActiveInstallments(m) ==
    SumF([k \in 1 .. Len(disbursement_schedule) |->
            IF /\ payment_timing[k] + 1 <= m
               /\ m <= payment_timing[k] + NMonths(loan_tenure_yrs)
              THEN TrancheInstallment(k) ELSE Zero])

\* C2: for an under-construction deal the EMI charged in month m is the sum
\* of the installments of the tranche loans active in month m.
C2_EmiIsSumOfActiveTranches ==
    (Calculated /\ UnderConstruction) =>
        \A m \in 1 .. horizon_years * 12 :
            Close(EmiCharged(m, emi, horizon_years, loan_tenure_yrs),
                  ActiveInstallments(m))

\* The equity paid plus the scheduled loan disbursements.
DisbursedPrincipal ==
    Add(down_payment_amt,
        SumF([k \in 1 .. Len(disbursement_schedule) |->
                disbursement_schedule[k][2]]))

\* The maintenance of the rented years.
TotalMaintenance ==
    FromInt(annual_maintenance * (horizon_years - construction_years))

\* C3: the total outflow is the disbursed principal plus the interest paid
\* plus the maintenance, and the total inflow is the net rent plus the
\* terminal sale value.
C3_FiguresReconcile ==
    pc = "rendered" =>
        /\ Close(page.total_outflow,
                 Add(Add(DisbursedPrincipal, interest_paid), TotalMaintenance))
        /\ Close(total_inflow, Add(net_rent_total, page.final_property_value))

\* Both fields convert and the tranche set is invalid: the percentages are
\* off 100 by more than 0.01 or the two lists differ in length.
InvalidTranches ==
    /\ UnderConstruction
    /\ Parsable(payment_schedule_str) /\ Parsable(payment_timing_str)
    /\ \/ SplitsOffHundred(ParseFloats(payment_schedule_str))
       \/ Len(payment_timing_str) # Len(payment_schedule_str)

ValidTranches ==
    /\ UnderConstruction
    /\ Parsable(payment_schedule_str) /\ Parsable(payment_timing_str)
    /\ ~SplitsOffHundred(ParseFloats(payment_schedule_str))
    /\ Len(payment_timing_str) = Len(payment_schedule_str)

\* C4: an invalid tranche set ends the computation in an error: the script
\* never gets to a disbursement schedule, a cash-flow series or a summary
\* computed from it.
C4_InvalidTranchesRejected == InvalidTranches => ~Calculated

\* C5: cash flows with no sign change end the solve in NoConvergenceError;
\* no rate (and no nan standing for one) reaches the page.
C5_NoSignChangeRaises ==
    (pc = "rendered" /\ ~SignChange(cashflows)) =>
        /\ irr = "NoConvergenceError"
        /\ page.irr \notin {"nan%", "rate%"}

\* C6: for a valid tranche set each disbursement is
\* total_price * percentage / 100 and the disbursements add up to the price.
C6_AmountsArePriceShares ==
    (Calculated /\ ValidTranches) =>
        /\ \A k \in 1 .. Len(disbursement_schedule) :
              Close(disbursement_schedule[k][2],
                    Div(Mul(FromInt(property_price), payment_splits[k]),
                        FromInt(100)))
        /\ Close(SumF([k \in 1 .. Len(disbursement_schedule) |->
                         disbursement_schedule[k][2]]),
                 FromInt(property_price))

\* C7: the disbursement schedule is in ascending order of month, whatever
\* the order the tranches were entered in.
C7_ScheduleAscending ==
    (Calculated /\ UnderConstruction) =>
        \A i, j \in 1 .. Len(disbursement_schedule) :
            i < j => ~Lt(disbursement_schedule[j][1],
                         disbursement_schedule[i][1])

\* C9: rent net of maintenance is never negative in any period.
C9_NetRentNeverNegative ==
    Calculated => \A i \in 1 .. Len(net_rent_vals) : net_rent_vals[i][1] >= 0

\* C10: no rent before possession; from possession on, the rent of a year
\* is the base rent escalated by the whole years since possession, less the
\* flat maintenance (stated where the rent covers the maintenance, so that
\* no floor applies).
C10_RentEscalatesMaintenanceFlat ==
    (Calculated /\ rent_monthly * 12 >= annual_maintenance) =>
        \A i \in 1 .. horizon_years :
            IF i <= construction_years
              THEN net_rent_vals[i] = Zero
              ELSE Close(net_rent_vals[i],
                         Sub(Mul(FromInt(rent_monthly * 12),
                                 PowF(Add(One, Ratio(rental_growth, 100)),
                                      i - 1 - construction_years)),
                             FromInt(annual_maintenance)))
====
